---------------------------- MODULE Spec2Model ----------------------------
(***************************************************************************)
(* Model of Mira2mqtt: the collector that drives the Mira user interface   *)
(* over VNC (MiraDataCollector.py), the region parser (MiraRegion.py) and  *)
(* the entry point (mira2mqtt.py).                                         *)
(*                                                                         *)
(* A Python string is a sequence of one-character strings; the character   *)
(* U+00B0 (degree sign) is written "deg", U+0131 (dotless i) "dotless_i"   *)
(* and a line feed "nl".  A Python dict is a function whose DOMAIN is the   *)
(* set of its keys.  An absent or None configuration entry is the record   *)
(* None; a present one is Some(v).                                         *)
(***************************************************************************)
EXTENDS Integers, Sequences, FiniteSets, TLC

---------------------------------------------------------------------------
(* Bounds of the model *)

\* the wall clock (seconds) runs from 0 to MaxTime
MaxTime == 1

\* numbers smaller than 10^-FloatDecimals are 0.0 (a Python float
\* underflows to 0.0 below 5e-324)
FloatDecimals == 6

\* the passes of clean_num_value over its own result
MaxPasses == 2

---------------------------------------------------------------------------
(* Strings *)

None == [has |-> FALSE, val |-> <<>>]
Some(v) == [has |-> TRUE, val |-> v]

Digits == {"0", "1", "2", "3", "4", "5", "6", "7", "8", "9"}
Whitespace == {" ", "nl"}

EmptyDict == [k \in {} |-> <<>>]

\* dict.update(): the entries of e replace or extend those of d
DictUpdate(d, e) ==
    [k \in DOMAIN d \cup DOMAIN e |-> IF k \in DOMAIN e THEN e[k] ELSE d[k]]

\* s[i:] with the model's 1-based i
\* s.startswith(t) tested at position i of s
StartsAt(s, i, t) ==
    /\ i >= 1
    /\ i + Len(t) - 1 <= Len(s)
    /\ SubSeq(s, i, i + Len(t) - 1) = t

\* t in s
Contains(s, t) == \E i \in 1..(Len(s) + 1) : StartsAt(s, i, t)

\* s.endswith(t)
EndsWith(s, t) == StartsAt(s, Len(s) - Len(t) + 1, t)

\* s.removesuffix(t)
RemoveSuffix(s, t) ==
    IF EndsWith(s, t) /\ Len(t) > 0 THEN SubSeq(s, 1, Len(s) - Len(t)) ELSE s

\* s.replace(old, new) for a non-empty old: leftmost, non-overlapping
RECURSIVE ReplaceFrom(_, _, _, _)
ReplaceFrom(s, i, old, new) ==
    IF i > Len(s) THEN <<>>
    ELSE IF StartsAt(s, i, old)
         THEN new \o ReplaceFrom(s, i + Len(old), old, new)
         ELSE <<s[i]>> \o ReplaceFrom(s, i + 1, old, new)

\* s.replace(old, new); the shipped locales never make old empty where new
\* is not empty, and "x".replace("", "") is "x"
Replace(s, old, new) ==
    IF Len(old) = 0 THEN s ELSE ReplaceFrom(s, 1, old, new)

\* s.strip()
RECURSIVE LStrip(_)
LStrip(s) ==
    IF Len(s) > 0 /\ s[1] \in Whitespace THEN LStrip(Tail(s)) ELSE s

RECURSIVE RStrip(_)
RStrip(s) ==
    IF Len(s) > 0 /\ s[Len(s)] \in Whitespace
    THEN RStrip(SubSeq(s, 1, Len(s) - 1))
    ELSE s

Strip(s) == RStrip(LStrip(s))

\* s.upper() on the characters of the model's alphabet
UpperChar(c) ==
    CASE c = "w" -> "W"
      [] c = "k" -> "K"
      [] c = "h" -> "H"
      [] c = "m" -> "M"
      [] c = "dotless_i" -> "I"
      [] OTHER -> c

Upper(s) == [i \in 1..Len(s) |-> UpperChar(s[i])]

\* s.split(sep) for a one-character sep: the pieces between the separators
RECURSIVE SplitFrom(_, _, _)
SplitFrom(s, sep, acc) ==
    IF Len(s) = 0 THEN <<acc>>
    ELSE IF s[1] = sep
         THEN <<acc>> \o SplitFrom(Tail(s), sep, <<>>)
         ELSE SplitFrom(Tail(s), sep, Append(acc, s[1]))

Split(s, sep) == SplitFrom(s, sep, <<>>)

AllDigits(s) == \A i \in 1..Len(s) : s[i] \in Digits

\* the least element of a non-empty set of integers
Min(S) == CHOOSE x \in S : \A y \in S : x <= y

---------------------------------------------------------------------------
(* Numbers.  A Python float is modelled as the exact decimal                *)
(* (-1)^neg * m / 10^e, kept normalised; the numbers the parser meets are   *)
(* short decimal strings, scaled by 1000 or divided by powers of ten.       *)

RECURSIVE Pow10(_)
Pow10(n) == IF n = 0 THEN 1 ELSE 10 * Pow10(n - 1)

RECURSIVE Normalise(_)
Normalise(x) ==
    IF x.m = 0 THEN [x EXCEPT !.e = 0]
    ELSE IF x.e > 0 /\ x.m % 10 = 0
         THEN Normalise([x EXCEPT !.m = x.m \div 10, !.e = x.e - 1])
         ELSE x

Zero == [neg |-> FALSE, m |-> 0, e |-> 0]

DigitVal(c) ==
    CASE c = "0" -> 0 [] c = "1" -> 1 [] c = "2" -> 2 [] c = "3" -> 3
      [] c = "4" -> 4 [] c = "5" -> 5 [] c = "6" -> 6 [] c = "7" -> 7
      [] c = "8" -> 8 [] c = "9" -> 9

DigitChar(n) ==
    CASE n = 0 -> "0" [] n = 1 -> "1" [] n = 2 -> "2" [] n = 3 -> "3"
      [] n = 4 -> "4" [] n = 5 -> "5" [] n = 6 -> "6" [] n = 7 -> "7"
      [] n = 8 -> "8" [] n = 9 -> "9"

RECURSIVE DigitsToNat(_)
DigitsToNat(s) ==
    IF Len(s) = 0 THEN 0
    ELSE 10 * DigitsToNat(SubSeq(s, 1, Len(s) - 1)) + DigitVal(s[Len(s)])

RECURSIVE NatToStr(_)
NatToStr(n) ==
    IF n < 10 THEN <<DigitChar(n)>>
    ELSE Append(NatToStr(n \div 10), DigitChar(n % 10))

\* n written with exactly w digits (leading zeros)
RECURSIVE NatToStrPad(_, _)
NatToStrPad(n, w) ==
    IF w = 0 THEN <<>>
    ELSE Append(NatToStrPad(n \div 10, w - 1), DigitChar(n % 10))

\* float(s): optional surrounding whitespace, an optional sign, digits with
\* at most one "."; anything else raises ValueError (ok = FALSE).  The
\* exponent, inf/nan and underscore forms cannot be built from the
\* characters the patterns capture.
ParseFloatParts(parts, neg) ==
    IF /\ Len(parts) <= 2
       /\ \A n \in 1..Len(parts) : AllDigits(parts[n])
       /\ \E n \in 1..Len(parts) : Len(parts[n]) > 0
    THEN [ok |-> TRUE,
          num |-> Normalise(
                     [neg |-> neg,
                      m |-> DigitsToNat(parts[1] \o parts[Len(parts)]),
                      e |-> Len(parts[Len(parts)])])]
    ELSE [ok |-> FALSE, num |-> Zero]

ParseFloatBody(body, neg) ==
    IF Contains(body, <<".">>)
    THEN ParseFloatParts(Split(body, "."), neg)
    ELSE ParseFloatParts(<<body, <<>>>>, neg)

ParseFloatStripped(t) ==
    IF Len(t) > 0 /\ t[1] \in {"-", "+"}
    THEN ParseFloatBody(Tail(t), t[1] = "-")
    ELSE ParseFloatBody(t, FALSE)

ParseFloat(s) == ParseFloatStripped(Strip(s))

\* str(x) of a float in the range where Python prints positional notation
FloatStr(x) ==
    LET ip == x.m \div Pow10(x.e)
        fp == x.m % Pow10(x.e)
    IN  (IF x.neg THEN <<"-">> ELSE <<>>)
        \o NatToStr(ip) \o <<".">>
        \o (IF x.e = 0 THEN <<"0">> ELSE NatToStrPad(fp, x.e))

\* x * 1000
Times1000(x) == Normalise([x EXCEPT !.m = x.m * 1000])

\* x / 10^n; the quotient underflows to 0.0
DivPow10(x, n) ==
    IF x.e + n > FloatDecimals THEN [neg |-> FALSE, m |-> 0, e |-> 0]
    ELSE Normalise([x EXCEPT !.e = x.e + n])

\* x > n for an integer n, by the integral and the fractional part of x
GreaterThan(x, n) ==
    IF x.neg
    THEN n < 0 /\ x.m \div Pow10(x.e) < 0 - n
    ELSE \/ n < 0
         \/ x.m \div Pow10(x.e) > n
         \/ x.m \div Pow10(x.e) = n /\ x.m % Pow10(x.e) > 0

\* locale.localeconv() under the locale tags of the model
localeconv(tag) ==
    CASE tag = "de_DE.UTF-8" ->
           [decimal_point |-> <<",">>, thousands_sep |-> <<".">>]
      [] tag = "en_US.UTF-8" ->
           [decimal_point |-> <<".">>, thousands_sep |-> <<",">>]
      [] OTHER ->
           [decimal_point |-> <<".">>, thousands_sep |-> <<>>]

\* locale.delocalize(): drop the grouping, turn the decimal point into "."
delocalize(s, tag) ==
    Replace(Replace(s, localeconv(tag).thousands_sep, <<>>),
            localeconv(tag).decimal_point, <<".">>)

---------------------------------------------------------------------------
(* MiraRegion: the patterns of process_numeric_values.  re.search returns   *)
(* the leftmost match; at one start position each of the three patterns     *)
(* has at most one match, because the character after the number must       *)
(* begin the unit (after whitespace) and so cannot be given back to it.     *)

\* the first position >= p of s that holds no whitespace (\s*)
RECURSIVE SkipSpaces(_, _)
SkipSpaces(s, p) ==
    IF p <= Len(s) /\ s[p] \in Whitespace THEN SkipSpaces(s, p + 1) ELSE p

\* the first position >= p of s that holds no digit (\d*)
RECURSIVE DigitRunEnd(_, _)
DigitRunEnd(s, p) ==
    IF p <= Len(s) /\ s[p] \in Digits THEN DigitRunEnd(s, p + 1) ELSE p

\* v matches \d{1,2},?\d as a whole
TempDigits(v) ==
    \/ Len(v) \in {2, 3} /\ AllDigits(v)
    \/ /\ Len(v) \in {3, 4}
       /\ v[Len(v) - 1] = ","
       /\ AllDigits(SubSeq(v, 1, Len(v) - 2))
       /\ v[Len(v)] \in Digits

\* u matches -?\d{1,2},?\d as a whole
TempNumber(u) ==
    IF Len(u) > 0 /\ u[1] = "-" THEN TempDigits(Tail(u)) ELSE TempDigits(u)

DegC == <<"deg", "C">>

\* (-?\d{1,2},?\d)\s*°C matches s from i with group 1 = s[i..j]
TempAt(s, i, j) ==
    /\ TempNumber(SubSeq(s, i, j))
    /\ StartsAt(s, SkipSpaces(s, j + 1), DegC)

\* group 1 of the match of the temperature pattern that starts at i
TempGroupAt(s, i) ==
    SubSeq(s, i, CHOOSE j \in i..Len(s) : TempAt(s, i, j))

\* re.search(r"(-?\d{1,2},?\d)\s*°C", s): None, or Some(group 1)
match_temp(s) ==
    IF \E i \in 1..Len(s) : \E j \in i..Len(s) : TempAt(s, i, j)
    THEN Some(TempGroupAt(s,
             Min({i \in 1..Len(s) : \E j \in i..Len(s) : TempAt(s, i, j)})))
    ELSE None

\* the position after the digits of -?\d+ from i, 0 if there is no digit
IntegerEnd(s, i) ==
    IF i <= Len(s) /\ s[i] = "-"
    THEN (IF DigitRunEnd(s, i + 1) = i + 1 THEN 0
          ELSE DigitRunEnd(s, i + 1))
    ELSE (IF DigitRunEnd(s, i) = i THEN 0 ELSE DigitRunEnd(s, i))

\* the position after [.,]?\d* from p
FractionEnd(s, p) ==
    IF p <= Len(s) /\ s[p] \in {".", ","}
    THEN DigitRunEnd(s, p + 1) ELSE p

\* the position after the greedy match of -?\d+[.,]?\d* from i, 0 if none
NumberEnd(s, i) ==
    IF IntegerEnd(s, i) = 0 THEN 0 ELSE FractionEnd(s, IntegerEnd(s, i))

\* the alternatives of the unit groups, in the order the patterns list them
EnergyUnits ==
    << <<"k","W","h">>, <<"k","w","h">>, <<"K","w","h">>, <<"K","W","h">>,
       <<"m","w","h">>, <<"M","w","h">>, <<"M","W","h">> >>

PowerUnits ==
    << <<"w">>, <<"W">>, <<"k","W">>, <<"k","w">>, <<"K","W">>,
       <<"k","k","W">>, <<"k","K","W">> >>

\* the first alternative of units that s holds at position q, 0 if none
UnitAt(s, q, units) ==
    IF \E a \in 1..Len(units) : StartsAt(s, q, units[a])
    THEN Min({a \in 1..Len(units) : StartsAt(s, q, units[a])})
    ELSE 0

\* (-?\d+[.,]?\d*)\s*(<units>) matches s from i
NumberUnitAt(s, i, units) ==
    /\ NumberEnd(s, i) > 0
    /\ UnitAt(s, SkipSpaces(s, NumberEnd(s, i)), units) > 0

\* the groups of the match that starts at i and whose number ends before e
NumberUnitGroups(s, i, e, units) ==
    [g1 |-> SubSeq(s, i, e - 1),
     g2 |-> units[UnitAt(s, SkipSpaces(s, e), units)]]

\* re.search(r"(-?\d+[.,]?\d*)\s*(<units>)", s) from the leftmost start i
NumberUnitFrom(s, i, units) ==
    Some(NumberUnitGroups(s, i, NumberEnd(s, i), units))

\* re.search(r"(-?\d+[.,]?\d*)\s*(<units>)", s): None, or
\* Some([g1 |-> group 1, g2 |-> group 2])
match_number_unit(s, units) ==
    IF \E i \in 1..Len(s) : NumberUnitAt(s, i, units)
    THEN NumberUnitFrom(s,
             Min({i \in 1..Len(s) : NumberUnitAt(s, i, units)}), units)
    ELSE None

match_energy(s) == match_number_unit(s, EnergyUnits)

match_power(s) == match_number_unit(s, PowerUnits)

---------------------------------------------------------------------------
(* MiraRegion: a region object is                                           *)
(*   [key, regionConfig, ui_locale, decpt, real_decpt, real_thpt]           *)
(* and a regionConfig is                                                    *)
(*   [secondaryKey, unit, MandatoryText, decpt, maxValue,                   *)
(*    mandatoryDecimalPlaces]                                               *)
(* where unit and MandatoryText are [kind |-> "absent" | "str" | "list",    *)
(* val |-> ...] and the other entries are None or Some(v).                  *)

Absent == [kind |-> "absent", val |-> <<>>]
Str(v) == [kind |-> "str", val |-> v]
List(v) == [kind |-> "list", val |-> v]

\* MiraRegion.__init__ with set_numeric_separators
MiraRegion(key, region_config, ui_locale) ==
    [key |-> key,
     regionConfig |-> region_config,
     ui_locale |-> ui_locale,
     decpt |-> region_config.decpt,
     real_decpt |-> localeconv(ui_locale).decimal_point,
     real_thpt |-> localeconv(ui_locale).thousands_sep]

\* clean_numeric_separators once the decimal point has been changed
remove_thousands(region, ret_value) ==
    Replace(ret_value, region.real_thpt, <<>>)

clean_numeric_separators(region, value) ==
    IF region.decpt.has
    THEN remove_thousands(region,
             Replace(value, region.decpt.val, region.real_decpt))
    ELSE remove_thousands(region, value)

\* float() of the delocalised string; ValueError gives 0.0
float_or_zero(parsed) == IF parsed.ok THEN parsed.num ELSE Zero

\* locale.atof under the region's locale; ValueError gives 0.0
get_numeric_value(region, strvalue) ==
    float_or_zero(ParseFloat(delocalize(strvalue, region.ui_locale)))

\* locale.setlocale(category, tag) for LC_ALL or LC_NUMERIC
setlocale(locale, category, tag) ==
    IF category = "LC_ALL" THEN [LC_NUMERIC |-> tag, others |-> tag]
    ELSE [locale EXCEPT !.LC_NUMERIC = tag]

\* the process locale after set_numeric_separators
locale_after_separators(locale, ui_locale, default) ==
    setlocale(setlocale(locale, "LC_NUMERIC", ui_locale),
              "LC_NUMERIC", default)

\* the process locale after get_numeric_value
locale_after_numeric_value(locale, ui_locale, default) ==
    setlocale(setlocale(locale, "LC_ALL", ui_locale),
              "LC_NUMERIC", default)

\* while numvalue > maxValue: numvalue /= 10   (maxValue > 0)
RECURSIVE MagnitudeCorrection(_, _)
MagnitudeCorrection(numvalue, maxValue) ==
    IF GreaterThan(numvalue, maxValue)
    THEN MagnitudeCorrection(DivPow10(numvalue, 1), maxValue)
    ELSE numvalue

Unit_kWh == <<"k", "W", "h">>
Unit_MWh == <<"M", "W", "h">>
Unit_kW == <<"k", "W">>
Unit_W == <<"W">>

\* the unit the cleaned string ends with, in the order of the elif chain;
\* <<>> if it ends with none
unit_suffix(cleaned) ==
    IF EndsWith(cleaned, Unit_kWh) THEN Unit_kWh
    ELSE IF EndsWith(cleaned, Unit_MWh) THEN Unit_MWh
    ELSE IF EndsWith(cleaned, Unit_kW) THEN Unit_kW
    ELSE IF EndsWith(cleaned, Unit_W) THEN Unit_W
    ELSE IF EndsWith(cleaned, DegC) THEN DegC
    ELSE <<>>

\* the scaling with kWh scaled as well
scale_unit_energy_too(suffix, numvalue) ==
    IF suffix \in {Unit_MWh, Unit_kW, Unit_kWh}
    THEN Times1000(numvalue) ELSE numvalue

\* numvalue *= 1000 for MWh and kW
scale_unit(suffix, numvalue) ==
    IF suffix \in {Unit_MWh, Unit_kW} THEN Times1000(numvalue) ELSE numvalue

\* the maxValue loop of clean_num_value
max_value_fix(region, numvalue) ==
    IF region.regionConfig.maxValue.has
    THEN MagnitudeCorrection(numvalue, region.regionConfig.maxValue.val)
    ELSE numvalue

\* the mandatoryDecimalPlaces fix without the look at the decimals
decimal_places_fix_always(region, strvalue, numvalue) ==
    IF region.regionConfig.mandatoryDecimalPlaces.has
    THEN DivPow10(numvalue, region.regionConfig.mandatoryDecimalPlaces.val)
    ELSE numvalue

\* the mandatoryDecimalPlaces fix of clean_num_value
decimal_places_fix(region, strvalue, numvalue) ==
    IF /\ region.regionConfig.mandatoryDecimalPlaces.has
       /\ ~Contains(strvalue, region.real_decpt)
    THEN DivPow10(numvalue, region.regionConfig.mandatoryDecimalPlaces.val)
    ELSE numvalue

\* clean_num_value from the string without its unit to the number
numeric_value(region, strvalue, suffix) ==
    decimal_places_fix(region, strvalue,
        max_value_fix(region,
            scale_unit(suffix, get_numeric_value(region, strvalue))))

\* clean_num_value once the separators are cleaned
clean_num_cleaned(region, cleaned, suffix) ==
    IF suffix = <<>> THEN cleaned
    ELSE FloatStr(numeric_value(region, RemoveSuffix(cleaned, suffix),
                                suffix))

clean_num_suffix(region, cleaned) ==
    clean_num_cleaned(region, cleaned, unit_suffix(cleaned))

clean_num_value(region, value) ==
    clean_num_suffix(region, clean_numeric_separators(region, Strip(value)))

\* "for t in mandatory_texts: if t not in current_text: current_text = ''"
RECURSIVE MandatoryGate(_, _)
MandatoryGate(current_text, mandatory_texts) ==
    IF Len(mandatory_texts) = 0 THEN current_text
    ELSE MandatoryGate(IF Contains(current_text, Head(mandatory_texts))
                       THEN current_text ELSE <<>>,
                       Tail(mandatory_texts))

\* the list process_numeric_values checks a segment against
mandatory_texts_of(region_config) ==
    CASE region_config.MandatoryText.kind = "list" ->
           region_config.MandatoryText.val
      [] region_config.MandatoryText.kind = "str" ->
           <<region_config.MandatoryText.val>>
      [] OTHER -> <<>>

\* the workaround for wrongly recognised numbers
CorrectConfusions(current_text) ==
    Replace(Replace(Replace(Replace(Replace(Replace(current_text,
        <<"A">>, <<"4">>), <<"B">>, <<"8">>), <<"D">>, <<"0">>),
        <<"I">>, <<"1">>), <<"T">>, <<"7">>), <<"dotless_i">>, <<" ">>)

\* the unit of an energy match with its case corrected
energy_unit(g2) ==
    Replace(Replace(Replace(Replace(g2,
        <<"w">>, <<"W">>), <<"H">>, <<"h">>),
        <<"K", "W">>, <<"k", "W">>), <<"m", "W">>, <<"M", "W">>)

\* the unit of a power match with its case corrected
power_unit(g2) ==
    Replace(Replace(Replace(Replace(g2,
        <<"w">>, <<"W">>), <<"K", "W">>, <<"k", "W">>),
        <<"k", "w">>, <<"k", "W">>), <<"k", "K", "W">>, <<"k", "W">>)

NoneStr == <<"N", "o", "n", "e">>

ZeroWatt == <<"0", "W">>

\* the workaround for zero values
zero_workaround(stripped) ==
    IF Upper(stripped) \in {<<"0", "W", "W">>, ZeroWatt}
    THEN ZeroWatt ELSE stripped

\* the match branches with the power pattern asked first
classify_power_first(temp, energy, power) ==
    IF power.has
    THEN Some(power.val.g1 \o power_unit(power.val.g2))
    ELSE IF temp.has THEN Some(temp.val \o DegC)
    ELSE IF energy.has
    THEN Some(energy.val.g1 \o energy_unit(energy.val.g2))
    ELSE None

\* the number with its unit that the first matching pattern hands to
\* clean_num_value: temperature, then energy, then power; None if no
\* pattern matches
classify(temp, energy, power) ==
    IF temp.has THEN Some(temp.val \o DegC)
    ELSE IF energy.has
    THEN Some(energy.val.g1 \o energy_unit(energy.val.g2))
    ELSE IF power.has
    THEN Some(power.val.g1 \o power_unit(power.val.g2))
    ELSE None

\* the value stored for a segment, given what the patterns found
store_value(region, defined_unit, current_text, found) ==
    IF found.has THEN clean_num_value(region, found.val)
    ELSE IF defined_unit.has /\ defined_unit.val # NoneStr THEN <<>>
    ELSE current_text

\* the patterns are searched in the corrected text
search_patterns(region, defined_unit, current_text, corrected_text) ==
    store_value(region, defined_unit, current_text,
                classify(match_temp(corrected_text),
                         match_energy(corrected_text),
                         match_power(corrected_text)))

\* the loop body from the strip on
cleaned_segment_value(region, defined_unit, current_text) ==
    search_patterns(region, defined_unit, current_text,
                    CorrectConfusions(current_text))

\* the body of the loop of process_numeric_values for one segment, from the
\* mandatory-text check to the value stored under the current key
segment_value(region, defined_unit, segment) ==
    cleaned_segment_value(region, defined_unit,
        zero_workaround(Strip(
            MandatoryGate(segment,
                          mandatory_texts_of(region.regionConfig)))))

\* defined_unit of the loop: None, or Some(unit); the caller has checked
\* that a unit list holds index i
defined_unit_of(cfg, i) ==
    IF cfg.unit.kind = "list" THEN Some(cfg.unit.val[i + 1])
    ELSE IF cfg.unit.kind = "str" THEN Some(cfg.unit.val)
    ELSE None

\* current_key of the loop
current_key_of(region, i) ==
    IF i > 0 THEN region.regionConfig.secondaryKey.val ELSE region.key

\* the loop of process_numeric_values over texts[k..]; i is the loop's own
\* counter, which "continue" leaves as it is.  raised = TRUE is the
\* IndexError of regionConfig['unit'][i].
RECURSIVE process_texts(_, _, _, _, _)
process_texts(region, texts, k, i, data) ==
    IF k > Len(texts) THEN [raised |-> FALSE, data |-> data]
    ELSE IF i > 0 /\ ~region.regionConfig.secondaryKey.has
    THEN process_texts(region, texts, k + 1, i, data)
    ELSE IF /\ region.regionConfig.unit.kind = "list"
            /\ i >= Len(region.regionConfig.unit.val)
    THEN [raised |-> TRUE, data |-> data]
    ELSE process_texts(region, texts, k + 1, i + 1,
             DictUpdate(data,
                 (current_key_of(region, i) :>
                     segment_value(region,
                         defined_unit_of(region.regionConfig, i),
                         texts[k]))))

\* the segments (from 1) the loop of process_numeric_values stores a
\* value for
stored_segments(region, texts) ==
    {k \in 1..Len(texts) :
        /\ k = 1 \/ region.regionConfig.secondaryKey.has
        /\ region.regionConfig.unit.kind = "list"
               => k <= Len(region.regionConfig.unit.val)}

\* a pattern matches the segment, so that clean_num_value and with it
\* get_numeric_value is called
segment_matches(region, segment) ==
    classify(
        match_temp(CorrectConfusions(zero_workaround(Strip(
            MandatoryGate(segment,
                          mandatory_texts_of(region.regionConfig)))))),
        match_energy(CorrectConfusions(zero_workaround(Strip(
            MandatoryGate(segment,
                          mandatory_texts_of(region.regionConfig)))))),
        match_power(CorrectConfusions(zero_workaround(Strip(
            MandatoryGate(segment,
                          mandatory_texts_of(region.regionConfig))))))).has

\* the process locale after process_numeric_values on the texts
locale_after_texts(locale, region, texts, default) ==
    IF \E k \in stored_segments(region, texts) :
           segment_matches(region, texts[k])
    THEN locale_after_numeric_value(locale, region.ui_locale, default)
    ELSE locale

\* process_and_retrieve: the recognised text, stripped
process_and_retrieve(ocr_text) == Strip(ocr_text)

\* process_numeric_values on the text recognised in the region
process_numeric_values(region, ocr_text) ==
    process_texts(region, Split(process_and_retrieve(ocr_text), "("),
                  1, 0, EmptyDict)

\* the process locale after process_numeric_values
locale_after_values(locale, region, ocr_text, default) ==
    locale_after_texts(locale, region,
                       Split(process_and_retrieve(ocr_text), "("), default)

\* the keys get_auto_discovery_data makes records for
discovery_keys(region) ==
    IF region.regionConfig.secondaryKey.has
    THEN <<region.key, region.regionConfig.secondaryKey.val>>
    ELSE <<region.key>>

\* get_auto_discovery_data: the names of the discovery records of a
\* region, one per key; raised = TRUE is the IndexError of a unit list
\* shorter than the keys
get_auto_discovery_data(region) ==
    [raised |-> /\ region.regionConfig.unit.kind = "list"
                /\ Len(region.regionConfig.unit.val)
                       < Len(discovery_keys(region)),
     names |-> discovery_keys(region)]

---------------------------------------------------------------------------
(* Configuration (mira2mqtt.py, CONFIG).  A page configuration is           *)
(*   [MouseMovesAndClicks |-> None | Some(<<action, ...>>),                 *)
(*    Regions |-> <<[key, config], ...>>]                                   *)
(* and an action is [moveTo, MandatoryText |-> None | Some(<<text, ...>>)]. *)
(* The texts are shortened: "W" and "Ne" stand for the page titles the      *)
(* shipped configuration asks for.                                          *)

RegionDefaults ==
    [secondaryKey |-> None, unit |-> Absent, MandatoryText |-> Absent,
     decpt |-> None, maxValue |-> None, mandatoryDecimalPlaces |-> None]

PageConfig(name) ==
    CASE name = "Home" ->
           [MouseMovesAndClicks |-> Some(<<
                [moveTo |-> <<10, 10>>,
                 MandatoryText |-> Some(<< <<"W">>, <<"N", "e">> >>)] >>),
            Regions |-> <<
                [key |-> "OutdoorTemp",
                 config |-> [RegionDefaults EXCEPT
                                !.secondaryKey = Some("OutdoorTempCurrent"),
                                !.unit = Str(DegC),
                                !.mandatoryDecimalPlaces = Some(1)]] >>]
      [] name = "Statistics" ->
           [MouseMovesAndClicks |-> Some(<<
                [moveTo |-> <<450, 960>>,
                 MandatoryText |-> Some(<< <<"W">> >>)],
                [moveTo |-> <<360, 410>>,
                 MandatoryText |-> Some(<< <<"N", "e">> >>)] >>),
            Regions |-> <<
                [key |-> "HeatingEnergy",
                 config |-> [RegionDefaults EXCEPT
                                !.decpt = Some(<<".">>),
                                !.unit = Str(Unit_kWh)]] >>]
      [] name = "Buffer" ->
           [MouseMovesAndClicks |-> Some(<<
                [moveTo |-> <<50, 110>>, MandatoryText |-> None],
                [moveTo |-> <<230, 230>>,
                 MandatoryText |-> Some(<< <<"W">> >>)] >>),
            Regions |-> <<
                [key |-> "Buffer_IST",
                 config |-> [RegionDefaults EXCEPT !.unit = Str(DegC)]],
                [key |-> "OutdoorTemp",
                 config |-> [RegionDefaults EXCEPT !.unit = Str(DegC)]] >>]
      [] OTHER ->
           [MouseMovesAndClicks |-> None, Regions |-> <<>>]

\* the page lists of the model: 'Pages' is a dict, so no page name occurs
\* twice in a list
PageLists ==
    { <<"Home", "Buffer">>,
      <<"Statistics", "BackHome">>,
      <<"Buffer", "Statistics">> }

\* what the recogniser reads on a whole frame
PageTexts ==
    { <<"W", "N", "e">>, <<"W">>, <<"w", "N", "e">> }

\* what the recogniser reads in a region
RegionTexts ==
    { <<"2","1",",","3","deg","C"," ","(","1","8",",","9","deg","C",")">>,
      <<"0", "W", "W", "nl">> }

---------------------------------------------------------------------------
(* State of a run of mira2mqtt.py *)

VARIABLES
    config,          \* CONFIG: [Pages, mqttUsage, mqttAutoDiscovery, locale]
    now,             \* the wall clock, in seconds
    pc,              \* where the program stands
    error,           \* the exception that ended the run, "" if none
    vncclient,       \* "none", "connected" or "disconnected"
    data,            \* MiraDataCollector.data
    auto_discovery,  \* MiraDataCollector.auto_discovery (names)
    mira_pages,      \* the list mira_pages of traverse_pages
    mira_page,       \* the MiraPage being navigated, NoPage between pages
    page_idx,        \* position of the first loop of traverse_pages
    move_idx,        \* position of the loop of do_mouse_moves_and_click
    proc_idx,        \* position of the second loop of traverse_pages
    region_idx,      \* position of the loop of process_regions
    handed,          \* messages mqtt_publish was called with and returned
    broker,          \* messages mqtt_client.publish sent
    page_status,     \* history: each page "pending", "acting", "ready",
                     \*          "skipped"
    pointer_log,     \* history: the mouseMove and mousePress calls made
    capture_failed,  \* history: the captures that raised, as <<page, move>>
    ocr_failed,      \* history: the recogniser raised
    passed_checks,   \* history: the content checks that passed, each
                     \*          [page, move, frame]
    failed_checks,   \* history: the content checks that failed, as
                     \*          <<page, move>>
    processed,       \* history: the <<page, region key>> pairs parsed
    merged,          \* history: the pages merged into data
    p_region,        \* parser run: the region object
    p_text,          \* parser run: the recognised text
    p_result,        \* parser run: the result, or NotRun
    num_call,        \* a call of clean_num_value in progress, and what its
                     \* earlier passes returned
    process_locale,  \* the locale of the process: [LC_NUMERIC, others]
    default_locale   \* the locale of the environment (getdefaultlocale)

vars == <<config, now, pc, error, vncclient, data, auto_discovery,
          mira_pages, mira_page, page_idx, move_idx, proc_idx, region_idx,
          handed, broker, page_status, pointer_log, capture_failed,
          ocr_failed, passed_checks, failed_checks, processed, merged,
          p_region, p_text, p_result, num_call, process_locale,
          default_locale>>

run_vars == <<config, now, pc, error, vncclient, data, auto_discovery,
              mira_pages, mira_page, page_idx, move_idx, proc_idx,
              region_idx, handed, broker, page_status, pointer_log,
              capture_failed, ocr_failed, passed_checks, failed_checks,
              processed, merged>>

parse_vars == <<p_region, p_text, p_result, num_call, default_locale>>

\* a page object without a captured image: pil_image = None
NoImage == [at |-> <<0, 0>>, text |-> <<>>]

NoPage == [name |-> "", idx |-> 0, pil_image |-> NoImage,
           data |-> EmptyDict, auto_discovery |-> <<>>]

NotRun == [raised |-> FALSE, data |-> EmptyDict, ran |-> FALSE]

\* no call of clean_num_value: the fields are those of the call, value,
\* strvalue and numvalue, with the unit suffix, the number as parsed, as
\* scaled and as it left the maxValue loop, the locale at the entry of the
\* last call, and the strings the passes returned
NoCall == [pc |-> "idle", config |-> RegionDefaults, ui_locale |-> "C",
           value |-> <<>>, strvalue |-> <<>>, suffix |-> <<>>,
           parsed |-> None, scaled |-> None, limited |-> None,
           numvalue |-> None,
           entry_locale |-> [LC_NUMERIC |-> "C", others |-> "C"],
           out |-> <<>>]

\* the locale of a Python process that has not called setlocale
StartLocale == [LC_NUMERIC |-> "C", others |-> "C"]

\* strftime("%Y-%m-%dT%H:%M:%S") of the clock
TimeStr(t) == <<"T">> \o NatToStr(t)

\* MiraDataCollector.__init__: the data of a fresh collector
InitialData(t) == ("Timestamp" :> TimeStr(t))

\* MiraPage.__init__: a page is a collector of its own (super().__init__)
MiraPage(name, idx, t) ==
    [name |-> name, idx |-> idx, pil_image |-> NoImage,
     data |-> InitialData(t), auto_discovery |-> <<>>]

NumPages == Len(config.Pages)

PageCfg(i) == PageConfig(config.Pages[i])

Moves(i) == PageCfg(i).MouseMovesAndClicks

\* an exception leaves the program: nothing after the raising call runs
Raise(kind) == pc' = "crashed" /\ error' = kind

Init ==
    /\ config \in [Pages : PageLists,
                   mqttUsage : BOOLEAN,
                   mqttAutoDiscovery : BOOLEAN,
                   locale : {"de_DE.UTF-8"}]
    /\ now = 0
    /\ pc = "connect_mqtt"
    /\ error = ""
    /\ vncclient = "none"
    /\ data = InitialData(0)
    /\ auto_discovery = <<>>
    /\ mira_pages = <<>>
    /\ mira_page = NoPage
    /\ page_idx = 1
    /\ move_idx = 1
    /\ proc_idx = 1
    /\ region_idx = 1
    /\ handed = <<>>
    /\ broker = <<>>
    /\ page_status = [i \in 1..Len(config.Pages) |-> "pending"]
    /\ pointer_log = <<>>
    /\ capture_failed = {}
    /\ ocr_failed = FALSE
    /\ passed_checks = {}
    /\ failed_checks = {}
    /\ processed = {}
    /\ merged = {}
    /\ p_region = MiraRegion("", RegionDefaults, "C")
    /\ p_text = <<>>
    /\ p_result = NotRun
    /\ num_call = NoCall
    /\ process_locale = StartLocale
    /\ default_locale = "en_US.UTF-8"

---------------------------------------------------------------------------
(* MiraPage *)

\* take_screenshot once refreshScreen has returned: a capture that raises
\* is caught and printed, and pil_image keeps what it held
take_screenshot(page, at, captured, text) ==
    IF captured
    THEN [page EXCEPT !.pil_image = [at |-> at, text |-> text]]
    ELSE page

\* check_mandatory_content on the text recognised on page.pil_image
check_mandatory_content(page, mandatory_text) ==
    \/ ~mandatory_text.has
    \/ \A n \in 1..Len(mandatory_text.val) :
           Contains(page.pil_image.text, mandatory_text.val[n])

\* what the remote display and the recogniser do during one pointer action
MoveEnvs ==
    {[fault |-> f, capture |-> TRUE, ocr |-> TRUE, text |-> <<>>] :
        f \in {"mouseMove", "mousePress", "refreshScreen"}}
    \cup {[fault |-> "none", capture |-> TRUE, ocr |-> o, text |-> t] :
            o \in BOOLEAN, t \in PageTexts}
    \cup {[fault |-> "none", capture |-> FALSE, ocr |-> o, text |-> <<>>] :
            o \in BOOLEAN}

PointerCall(call, page, move) == [call |-> call, page |-> page, move |-> move]

\* how one pass of the loop of do_mouse_moves_and_click ends
move_outcome(m, shot, env, last) ==
    IF env.fault # "none" THEN "transport"
    ELSE IF ~m.MandatoryText.has THEN "return_true"
    ELSE IF shot.pil_image = NoImage THEN "TypeError"
    ELSE IF ~env.ocr THEN "ocr"
    ELSE IF ~check_mandatory_content(shot, m.MandatoryText)
    THEN "return_false"
    ELSE IF last THEN "return_true" ELSE "next"

Crashes == {"transport", "ocr", "TypeError", "AttributeError", "IndexError",
            "mqtt", "locale"}

---------------------------------------------------------------------------
(* The entry point: mira.connect_mqtt(); mira.vnc_connect();                *)
(* mira.traverse_pages(); mira.vnc_disconnect()                             *)

ConnectMqtt ==
    /\ pc = "connect_mqtt"
    /\ \E ok \in BOOLEAN :
          IF ok \/ ~config.mqttUsage
          THEN pc' = "vnc_connect" /\ error' = error
          ELSE Raise("mqtt")
    /\ UNCHANGED <<config, now, vncclient, data, auto_discovery, mira_pages,
                   mira_page, page_idx, move_idx, proc_idx, region_idx,
                   handed, broker, page_status, pointer_log, capture_failed,
                   ocr_failed, passed_checks, failed_checks, processed,
                   merged, parse_vars, process_locale>>

VncConnect ==
    /\ pc = "vnc_connect"
    /\ \E ok \in BOOLEAN :
          IF ok
          THEN pc' = "traverse" /\ error' = error
               /\ vncclient' = "connected"
          ELSE Raise("transport") /\ vncclient' = vncclient
    /\ UNCHANGED <<config, now, data, auto_discovery, mira_pages, mira_page,
                   page_idx, move_idx, proc_idx, region_idx, handed, broker,
                   page_status, pointer_log, capture_failed, ocr_failed,
                   passed_checks, failed_checks, processed, merged,
                   parse_vars, process_locale>>

\* traverse_pages: the mouse move that wakes the display
WakeDisplay ==
    /\ pc = "traverse"
    /\ \E ok \in BOOLEAN :
          IF ok
          THEN /\ pc' = "pages" /\ error' = error
               /\ pointer_log' =
                      Append(pointer_log, PointerCall("mouseMove", 0, 0))
          ELSE Raise("transport") /\ pointer_log' = pointer_log
    /\ UNCHANGED <<config, now, vncclient, data, auto_discovery, mira_pages,
                   mira_page, page_idx, move_idx, proc_idx, region_idx,
                   handed, broker, page_status, capture_failed, ocr_failed,
                   passed_checks, failed_checks, processed, merged,
                   parse_vars, process_locale>>

\* traverse_pages: the first loop takes the next page
StartPage ==
    /\ pc = "pages"
    /\ page_idx <= NumPages
    /\ mira_page' = MiraPage(config.Pages[page_idx], page_idx, now)
    /\ page_status' = [page_status EXCEPT ![page_idx] = "acting"]
    /\ move_idx' = 1
    /\ pc' = IF Moves(page_idx).has /\ Len(Moves(page_idx).val) > 0
             THEN "moves" ELSE "screenshot"
    /\ UNCHANGED <<config, now, error, vncclient, data, auto_discovery,
                   mira_pages, page_idx, proc_idx, region_idx, handed,
                   broker, pointer_log, capture_failed, ocr_failed,
                   passed_checks, failed_checks, processed, merged,
                   parse_vars, process_locale>>

\* traverse_pages without the "continue" of a page whose mandatory text
\* was not found
after_moves_without_continue(mandatory_found) == "screenshot"

\* traverse_pages after do_mouse_moves_and_click has returned: "continue"
\* with the next page unless the mandatory text was found
after_moves(mandatory_found) ==
    IF mandatory_found THEN "screenshot" ELSE "pages"

\* where the program stands after one pass of the loop
after_move(outcome) ==
    IF outcome \in Crashes THEN "crashed"
    ELSE IF outcome = "return_true" THEN after_moves(TRUE)
    ELSE IF outcome = "return_false" THEN after_moves(FALSE)
    ELSE "moves"

\* the recogniser is called in the pass: the action declares mandatory
\* text and there is an image to read
recognised(m, shot, env) ==
    env.fault = "none" /\ m.MandatoryText.has /\ shot.pil_image # NoImage

\* do_mouse_moves_and_click: one pass of its loop
DoMouseMovesAndClick ==
    /\ pc = "moves"
    /\ \E env \in MoveEnvs :
          LET m == Moves(page_idx).val[move_idx]
              at == <<page_idx, move_idx>>
              shot == take_screenshot(mira_page, at, env.capture, env.text)
              outcome == move_outcome(m, shot, env,
                             move_idx = Len(Moves(page_idx).val))
              moved == Append(pointer_log,
                              PointerCall("mouseMove", page_idx, move_idx))
              pressed == Append(moved,
                              PointerCall("mousePress", page_idx, move_idx))
          IN  /\ pointer_log' = CASE env.fault = "mouseMove" -> pointer_log
                                  [] env.fault = "mousePress" -> moved
                                  [] OTHER -> pressed
              /\ capture_failed' =
                     IF env.fault = "none" /\ ~env.capture
                     THEN capture_failed \cup {at} ELSE capture_failed
              /\ ocr_failed' =
                     (ocr_failed \/ (recognised(m, shot, env) /\ ~env.ocr))
              /\ passed_checks' =
                     IF m.MandatoryText.has
                        /\ outcome \in {"next", "return_true"}
                     THEN passed_checks \cup
                          {[page |-> page_idx, move |-> move_idx,
                            frame |-> shot.pil_image]}
                     ELSE passed_checks
              /\ failed_checks' =
                     IF outcome = "return_false"
                     THEN failed_checks \cup {at} ELSE failed_checks
              /\ page_status' =
                     IF outcome = "return_false"
                     THEN [page_status EXCEPT ![page_idx] = "skipped"]
                     ELSE page_status
              /\ pc' = after_move(outcome)
              /\ error' = IF outcome \in Crashes THEN outcome ELSE error
              /\ move_idx' = IF outcome = "next" THEN move_idx + 1
                             ELSE move_idx
              /\ page_idx' = IF after_move(outcome) = "pages"
                             THEN page_idx + 1 ELSE page_idx
              /\ mira_page' = CASE env.fault # "none" -> mira_page
                                [] after_move(outcome) = "pages" -> NoPage
                                [] OTHER -> shot
    /\ UNCHANGED <<config, now, vncclient, data, auto_discovery, mira_pages,
                   proc_idx, region_idx, handed, broker, processed, merged,
                   parse_vars, process_locale>>

\* what the remote display does during the screenshot of traverse_pages;
\* no text is recognised on the whole of this frame, only on its regions
ShotEnvs ==
    {[fault |-> "refreshScreen", capture |-> TRUE, text |-> <<>>],
     [fault |-> "none", capture |-> FALSE, text |-> <<>>],
     [fault |-> "none", capture |-> TRUE, text |-> <<>>]}

\* traverse_pages: mira_page.take_screenshot(); mira_pages.append(mira_page)
FinalScreenshot ==
    /\ pc = "screenshot"
    /\ \E env \in ShotEnvs :
          LET at == <<page_idx, 0>>
              shot == take_screenshot(mira_page, at, env.capture, env.text)
          IN  IF env.fault # "none"
              THEN /\ Raise("transport")
                   /\ UNCHANGED <<mira_page, mira_pages, page_idx,
                                  page_status, capture_failed>>
              ELSE /\ pc' = "pages" /\ error' = error
                   /\ mira_page' = NoPage
                   /\ mira_pages' = Append(mira_pages, shot)
                   /\ page_idx' = page_idx + 1
                   /\ page_status' =
                          [page_status EXCEPT ![page_idx] = "ready"]
                   /\ capture_failed' =
                          IF env.capture THEN capture_failed
                          ELSE capture_failed \cup {at}
    /\ UNCHANGED <<config, now, vncclient, data, auto_discovery, move_idx,
                   proc_idx, region_idx, handed, broker, pointer_log,
                   ocr_failed, passed_checks, failed_checks, processed,
                   merged, parse_vars, process_locale>>

\* traverse_pages: the first loop is over
EndPages ==
    /\ pc = "pages"
    /\ page_idx > NumPages
    /\ pc' = "regions"
    /\ proc_idx' = 1
    /\ region_idx' = 1
    /\ UNCHANGED <<config, now, error, vncclient, data, auto_discovery,
                   mira_pages, mira_page, page_idx, move_idx, handed, broker,
                   page_status, pointer_log, capture_failed, ocr_failed,
                   passed_checks, failed_checks, processed, merged,
                   parse_vars, process_locale>>

\* the regions of the page object mira_pages[i]
RegionsOf(i) == PageConfig(mira_pages[i].name).Regions

RegionEnvs == [ocr : BOOLEAN, text : RegionTexts]

\* process_regions with the recogniser's exception caught
region_outcome_ocr_caught(page, region, env) ==
    IF page.pil_image = NoImage THEN "AttributeError"
    ELSE IF process_numeric_values(region, env.text).raised
    THEN "IndexError"
    ELSE "ok"

\* how one pass of the loop of process_regions ends: the crop of a page
\* without image raises AttributeError, the recogniser may raise, and the
\* unit list may be too short for the segments or the keys
region_outcome(page, region, env) ==
    IF page.pil_image = NoImage THEN "AttributeError"
    ELSE IF ~env.ocr THEN "ocr"
    ELSE IF process_numeric_values(region, env.text).raised
    THEN "IndexError"
    ELSE IF config.mqttAutoDiscovery /\ get_auto_discovery_data(region).raised
    THEN "IndexError"
    ELSE "ok"

\* the process locale after one pass of the loop of process_regions:
\* MiraRegion.__init__ crops the image before it sets the separators, and
\* the recogniser is called before any number is parsed
locale_after_region(locale, page, region, env) ==
    IF page.pil_image = NoImage THEN locale
    ELSE IF ~env.ocr
    THEN locale_after_separators(locale, region.ui_locale, default_locale)
    ELSE locale_after_values(
             locale_after_separators(locale, region.ui_locale,
                                     default_locale),
             region, env.text, default_locale)

\* the page object after one pass of the loop of process_regions
process_region(page, region, ocr_text) ==
    [page EXCEPT
        !.data = DictUpdate(@, process_numeric_values(region, ocr_text).data),
        !.auto_discovery =
            IF config.mqttAutoDiscovery
            THEN @ \o get_auto_discovery_data(region).names
            ELSE @]

\* process_regions: one pass of its loop
ProcessRegion ==
    /\ pc = "regions"
    /\ proc_idx <= Len(mira_pages)
    /\ region_idx <= Len(RegionsOf(proc_idx))
    /\ \E env \in RegionEnvs :
          LET page == mira_pages[proc_idx]
              rc == RegionsOf(proc_idx)[region_idx]
              region == MiraRegion(rc.key, rc.config, config.locale)
              outcome == region_outcome(page, region, env)
          IN  /\ ocr_failed' =
                     (ocr_failed \/ (page.pil_image # NoImage /\ ~env.ocr))
              /\ process_locale' =
                     locale_after_region(process_locale, page, region, env)
              /\ IF outcome = "ok"
                 THEN /\ mira_pages' =
                             [mira_pages EXCEPT ![proc_idx] =
                                 process_region(page, region, env.text)]
                      /\ processed' = processed \cup {<<page.idx, rc.key>>}
                      /\ region_idx' = region_idx + 1
                      /\ pc' = pc /\ error' = error
                 ELSE /\ Raise(outcome)
                      /\ UNCHANGED <<mira_pages, processed, region_idx>>
    /\ UNCHANGED <<config, now, vncclient, data, auto_discovery, mira_page,
                   page_idx, move_idx, proc_idx, handed, broker, page_status,
                   pointer_log, capture_failed, passed_checks, failed_checks,
                   merged, parse_vars>>

\* the collector's data after self.data.update(mira_page.data)
merge_page(collector_data, page) == DictUpdate(collector_data, page.data)

\* traverse_pages: the second loop merges a processed page
MergePage ==
    /\ pc = "regions"
    /\ proc_idx <= Len(mira_pages)
    /\ region_idx > Len(RegionsOf(proc_idx))
    /\ data' = merge_page(data, mira_pages[proc_idx])
    /\ auto_discovery' = auto_discovery \o mira_pages[proc_idx].auto_discovery
    /\ merged' = merged \cup {mira_pages[proc_idx].idx}
    /\ proc_idx' = proc_idx + 1
    /\ region_idx' = 1
    /\ UNCHANGED <<config, now, pc, error, vncclient, mira_pages, mira_page,
                   page_idx, move_idx, handed, broker, page_status,
                   pointer_log, capture_failed, ocr_failed, passed_checks,
                   failed_checks, processed, parse_vars, process_locale>>

\* publish_data sending the discovery messages only
publish_messages_discovery_only ==
    IF config.mqttAutoDiscovery
    THEN [n \in 1..Len(auto_discovery) |->
             [topic |-> "discovery", name |-> auto_discovery[n],
              payload |-> EmptyDict]]
    ELSE <<>>

\* the messages publish_data passes to mqtt_publish, in order
publish_messages ==
    (IF config.mqttAutoDiscovery
     THEN [n \in 1..Len(auto_discovery) |->
              [topic |-> "discovery", name |-> auto_discovery[n],
               payload |-> EmptyDict]]
     ELSE <<>>)
    \o << [topic |-> "status", name |-> "", payload |-> data] >>

\* the numbers of messages publish_data can get through: all of them, or
\* fewer when setlocale raises (none) or the MQTT client raises
publish_progress ==
    IF config.mqttUsage THEN 0..Len(publish_messages)
    ELSE {0, Len(publish_messages)}

\* traverse_pages: self.publish_data()
PublishData ==
    /\ pc = "regions"
    /\ proc_idx > Len(mira_pages)
    /\ \E k \in publish_progress :
          /\ handed' = SubSeq(publish_messages, 1, k)
          /\ broker' = IF config.mqttUsage
                       THEN SubSeq(publish_messages, 1, k) ELSE <<>>
          /\ IF k = Len(publish_messages)
             THEN pc' = "vnc_disconnect" /\ error' = error
             ELSE Raise(IF config.mqttUsage THEN "mqtt" ELSE "locale")
          /\ process_locale' =
                 IF k < Len(publish_messages) /\ ~config.mqttUsage
                 THEN process_locale
                 ELSE setlocale(process_locale, "LC_ALL", config.locale)
    /\ UNCHANGED <<config, now, vncclient, data, auto_discovery, mira_pages,
                   mira_page, page_idx, move_idx, proc_idx, region_idx,
                   page_status, pointer_log, capture_failed, ocr_failed,
                   passed_checks, failed_checks, processed, merged,
                   parse_vars>>

\* mira.vnc_disconnect()
VncDisconnect ==
    /\ pc = "vnc_disconnect"
    /\ vncclient' = "disconnected"
    /\ pc' = "done"
    /\ UNCHANGED <<config, now, error, data, auto_discovery, mira_pages,
                   mira_page, page_idx, move_idx, proc_idx, region_idx,
                   handed, broker, page_status, pointer_log, capture_failed,
                   ocr_failed, passed_checks, failed_checks, processed,
                   merged, parse_vars, process_locale>>

\* time passes while the program sleeps and waits; the clock is read only
\* when a page object is built, so the seconds elapsed since the last read
\* are added there
Tick ==
    /\ pc = "pages"
    /\ page_idx <= NumPages
    /\ now < MaxTime
    /\ now' = now + 1
    /\ UNCHANGED <<config, pc, error, vncclient, data, auto_discovery,
                   mira_pages, mira_page, page_idx, move_idx, proc_idx,
                   region_idx, handed, broker, page_status, pointer_log,
                   capture_failed, ocr_failed, passed_checks, failed_checks,
                   processed, merged, parse_vars, process_locale>>

\* the steps of the program itself
Program ==
    \/ ConnectMqtt
    \/ VncConnect
    \/ WakeDisplay
    \/ StartPage
    \/ DoMouseMovesAndClick
    \/ FinalScreenshot
    \/ EndPages
    \/ ProcessRegion
    \/ MergePage
    \/ PublishData
    \/ VncDisconnect

Next == Program \/ Tick

Spec == Init /\ [][Next]_vars

\* the program is one sequential thread: it takes its next step
FairSpec == Spec /\ WF_vars(Program)

---------------------------------------------------------------------------
(* Navigation: the pointer actions of a page *)

\* the pointer calls made for page i, in the order they were made
PageCalls(i) == SelectSeq(pointer_log, LAMBDA c : c.page = i)

\* the move and the click of every action of page i, in order
AllCalls(i) ==
    [k \in 1..(2 * Len(Moves(i).val)) |->
        PointerCall(IF k % 2 = 1 THEN "mouseMove" ELSE "mousePress",
                    i, (k + 1) \div 2)]

\* C1: a page whose n pointer actions met no failed content check has had
\* the move and the click of every action 1..n performed, in order; an
\* action without required substrings counts as passed and the actions
\* after it are still performed.
C1_AllActionsPerformed ==
    \A i \in 1..NumPages :
        (page_status[i] = "ready" /\ Moves(i).has)
            => PageCalls(i) = AllCalls(i)

\* C2: a content check passes only on the frame captured after the click
\* of its own action and only if that frame's text holds every required
\* substring; once a check has failed the page is skipped and no move or
\* click of a later action of the page is made.
C2_CheckOnOwnFrame ==
    /\ \A c \in passed_checks :
          /\ c.frame.at = <<c.page, c.move>>
          /\ check_mandatory_content(
                 [pil_image |-> c.frame],
                 Moves(c.page).val[c.move].MandatoryText)
    /\ \A f \in failed_checks :
          /\ page_status[f[1]] = "skipped"
          /\ \A n \in 1..Len(pointer_log) :
                 pointer_log[n].page = f[1] => pointer_log[n].move <= f[2]

---------------------------------------------------------------------------
(* Skipped pages *)

\* a page that is skipped stays out of the rest of the run
SkippedStaysOut ==
    \A i \in 1..NumPages :
        page_status[i] = "skipped" =>
            /\ i \notin merged
            /\ \A pr \in processed : pr[1] # i
            /\ \A n \in 1..Len(mira_pages) : mira_pages[n].idx # i

\* the step that skips a page raises nothing and goes on with the next page
SkipGoesOn ==
    \A i \in 1..Len(config.Pages) :
        (page_status[i] # "skipped" /\ page_status'[i] = "skipped") =>
            /\ pc' = "pages"
            /\ error' = ""
            /\ page_idx' = i + 1
            /\ data' = data

\* the dataset changes only by the merge of a page that is ready
OnlyReadyPagesMerge ==
    data' # data =>
        \E i \in 1..Len(config.Pages) :
            /\ page_status[i] = "ready"
            /\ merged' = merged \cup {i}

\* C3: a page skipped by a failed content check contributes nothing to the
\* dataset (none of its regions is parsed, it is never merged), the skip
\* raises no error, and the run goes on to navigate the next page.
C3_SkippedPageContributesNothing ==
    []SkippedStaysOut /\ [][SkipGoesOn /\ OnlyReadyPagesMerge]_vars

\* a page was skipped, the page after it was navigated and merged, and the
\* dataset was published
C3_Witness ==
    /\ pc = "done"
    /\ page_status[1] = "skipped"
    /\ page_status[2] = "ready"
    /\ merged = {2}

---------------------------------------------------------------------------
(* The dataset *)

\* C4: once a key is in the collector's dataset, no later merge changes
\* its value.
C4_NoOverwrite ==
    [][\A k \in DOMAIN data : k \in DOMAIN data' /\ data'[k] = data[k]]_vars

---------------------------------------------------------------------------
(* Fatal errors *)

\* C5: a frame capture that fails aborts the run: the page is neither
\* skipped nor ready, none of its regions is parsed and nothing is
\* published.
C5_CaptureFailureAborts ==
    \A f \in capture_failed :
        /\ pc = "crashed"
        /\ page_status[f[1]] \notin {"ready", "skipped"}
        /\ \A pr \in processed : pr[1] # f[1]
        /\ handed = <<>>
        /\ broker = <<>>

\* C6: a failure of the recogniser, in a content check or on a region,
\* aborts the run with the error, and the publisher is never called.
C6_OcrFailureAborts ==
    ocr_failed =>
        /\ pc = "crashed"
        /\ error = "ocr"
        /\ handed = <<>>
        /\ broker = <<>>

\* the recogniser failed on a region of the second page, after the first
\* page had been parsed and merged
C6_Witness ==
    /\ ocr_failed
    /\ merged = {1}
    /\ proc_idx = 2

\* C7: on every way out of a run that has opened the session, fatal errors
\* included, the session is disconnected.
C7_AlwaysDisconnected ==
    pc \in {"done", "crashed"} => vncclient # "connected"

---------------------------------------------------------------------------
(* Delivery of the dataset *)

\* the status messages handed to the publisher
StatusMessages == SelectSeq(handed, LAMBDA m : m.topic = "status")

\* every configured page has been navigated
AllNavigated ==
    \A i \in 1..NumPages : page_status[i] \in {"ready", "skipped"}

\* every region of every ready page has been parsed and the page merged
ReadyPagesDone ==
    \A i \in 1..NumPages :
        page_status[i] = "ready" =>
            /\ i \in merged
            /\ \A n \in 1..Len(PageCfg(i).Regions) :
                   <<i, PageCfg(i).Regions[n].key>> \in processed

\* the dataset is handed over at most once, complete and at the end
DeliveredOnceAfterAll ==
    /\ Len(StatusMessages) <= 1
    /\ Len(StatusMessages) = 1 =>
           /\ AllNavigated
           /\ ReadyPagesDone
           /\ StatusMessages[1].payload = data

\* C8: in every run without a fatal error the dataset is eventually handed
\* to the publisher, exactly once, and only after every configured page
\* has been navigated and every ready page's regions have been parsed and
\* merged.
C8_DeliveredExactlyOnce ==
    /\ []DeliveredOnceAfterAll
    /\ <>(pc = "crashed" \/ Len(StatusMessages) = 1)

\* a run of two ready pages with three regions ended with the dataset
\* handed over
C8_Witness ==
    /\ pc = "done"
    /\ Len(StatusMessages) = 1
    /\ merged = {1, 2}
    /\ Cardinality(processed) = 3

---------------------------------------------------------------------------
(* Captured frames *)

\* the page objects of the list that hold a captured frame
Retained == {n \in 1..Len(mira_pages) : mira_pages[n].pil_image # NoImage}

\* the frames held while traverse_pages runs: those of the list and the
\* one of the page being navigated
FramesHeld ==
    Cardinality(Retained) + (IF mira_page.pil_image # NoImage THEN 1 ELSE 0)

\* C19: at every point of a run at most one captured frame is retained: a
\* page's frame is discarded once its regions have been extracted, and
\* that extraction is complete before the next page is navigated.
C19_OneFrameRetained ==
    pc \in {"pages", "moves", "screenshot", "regions"} =>
        /\ FramesHeld <= 1
        /\ \A n \in 1..Len(mira_pages) :
               mira_pages[n].idx \in merged =>
                   mira_pages[n].pil_image = NoImage
        /\ pc \in {"moves", "screenshot"} =>
               \A n \in 1..Len(mira_pages) : mira_pages[n].idx \in merged

\* the last pointer action of page i
LastMove(i) == Len(Moves(i).val)

\* C20: the frame of a ready page with pointer actions that is handed to
\* the extraction of its regions is the frame captured after the click of
\* its last action, the frame on which the required substrings of that
\* action were verified; no later capture has replaced it.
C20_VerifiedFrameExtracted ==
    \A n \in 1..Len(mira_pages) :
        LET page == mira_pages[n]
        IN  (Moves(page.idx).has /\ LastMove(page.idx) > 0) =>
                /\ page.pil_image.at = <<page.idx, LastMove(page.idx)>>
                /\ Moves(page.idx).val[LastMove(page.idx)].MandatoryText.has
                       => [page |-> page.idx, move |-> LastMove(page.idx),
                           frame |-> page.pil_image] \in passed_checks

---------------------------------------------------------------------------
(* The timestamp of the dataset *)

\* self.timestamp of the collector, set when it was constructed
CollectorTimestamp == InitialData(0)["Timestamp"]

\* the keys the regions of page i produce
RegionKeys(i) ==
    UNION {{PageCfg(i).Regions[r].key} \cup
           (IF PageCfg(i).Regions[r].config.secondaryKey.has
            THEN {PageCfg(i).Regions[r].config.secondaryKey.val} ELSE {}) :
           r \in 1..Len(PageCfg(i).Regions)}

\* C23: the merge of a page adds or changes only keys its regions
\* produced: the dataset holds 'Timestamp' and keys of the merged pages'
\* regions, and 'Timestamp' keeps the value the collector's construction
\* gave it through every merge and in the dataset handed over for
\* publication.
C23_TimestampKept ==
    /\ DOMAIN data \subseteq
           {"Timestamp"} \cup UNION {RegionKeys(i) : i \in merged}
    /\ data["Timestamp"] = CollectorTimestamp
    /\ \A n \in 1..Len(handed) :
           handed[n].topic = "status" =>
               handed[n].payload["Timestamp"] = CollectorTimestamp

---------------------------------------------------------------------------
(* The parser of a region on its own: a region object is built from a      *)
(* configuration and a locale, and process_numeric_values is applied to a  *)
(* recognised text.                                                        *)

Soll == <<"S", "o", "l", "l">>

\* region configurations, as the 'Regions' of a page declare them
ParseConfigs ==
    { RegionDefaults,
      [RegionDefaults EXCEPT !.secondaryKey = Some("S")],
      [RegionDefaults EXCEPT !.unit = Str(DegC)],
      [RegionDefaults EXCEPT !.secondaryKey = Some("S"),
                             !.unit = Str(DegC),
                             !.mandatoryDecimalPlaces = Some(1)],
      [RegionDefaults EXCEPT !.secondaryKey = Some("S"),
                             !.unit = Str(DegC),
                             !.MandatoryText = Str(Soll)],
      [RegionDefaults EXCEPT !.secondaryKey = Some("S"),
                             !.unit = List(<<DegC, DegC>>),
                             !.MandatoryText = List(<<Soll, DegC>>)],
      [RegionDefaults EXCEPT !.decpt = Some(<<".">>),
                             !.unit = Str(Unit_kWh)] }

ParseLocales == {"de_DE.UTF-8", "en_US.UTF-8"}

\* texts the recogniser hands to process_numeric_values
ParseTexts ==
    { <<>>,
      <<"2","1",",","3","deg","C">>,
      <<"2","1",",","3","deg","C"," ","(","1","8",",","9","deg","C",")">>,
      <<"S","o","l","l"," ","2","1",",","3","deg","C"," ",
        "(","1","8",",","9","deg","C",")">>,
      <<"S","o","l","l"," ","2","1",",","3","deg","C"," ",
        "(","S","o","l","l"," ","1","8",",","9","deg","C",")">>,
      <<"I","s","t"," ","(","1","8",",","9","deg","C",")">>,
      <<"1","(","2","(","3">>,
      <<"1",",","5","deg","C","(","2",",","5","deg","C",
        "(","3",",","5","deg","C">>,
      <<"0","W","W","nl">>,
      <<" ","1","2",".","5"," ","k","W","h","nl">>,
      <<"S","o","l","l"," ","7"," ","k","W">>,
      <<"2","1",",","3","deg","C"," ","5","k","W","h">>,
      <<"1","2","k","k","W">>,
      <<"1","2","K","W","H">>,
      <<"3","m","W","h">>,
      <<"5","deg","C">>,
      <<"-","5","deg","C">> }

ParseInit ==
    /\ config = [Pages |-> <<>>, mqttUsage |-> FALSE,
                 mqttAutoDiscovery |-> FALSE, locale |-> "C"]
    /\ now = 0
    /\ pc = "parse"
    /\ error = ""
    /\ vncclient = "none"
    /\ data = InitialData(0)
    /\ auto_discovery = <<>>
    /\ mira_pages = <<>>
    /\ mira_page = NoPage
    /\ page_idx = 1
    /\ move_idx = 1
    /\ proc_idx = 1
    /\ region_idx = 1
    /\ handed = <<>>
    /\ broker = <<>>
    /\ page_status = <<>>
    /\ pointer_log = <<>>
    /\ capture_failed = {}
    /\ ocr_failed = FALSE
    /\ passed_checks = {}
    /\ failed_checks = {}
    /\ processed = {}
    /\ merged = {}
    /\ \E cfg \in ParseConfigs, tag \in ParseLocales :
           p_region = MiraRegion("K", cfg, tag)
    /\ p_text \in ParseTexts
    /\ p_result = NotRun
    /\ num_call = NoCall
    /\ process_locale = StartLocale
    /\ default_locale = "en_US.UTF-8"

\* region.process_numeric_values() on the recognised text
ParseRegion ==
    /\ pc = "parse"
    /\ ~p_result.ran
    /\ p_result' =
           [raised |-> process_numeric_values(p_region, p_text).raised,
            data |-> process_numeric_values(p_region, p_text).data,
            ran |-> TRUE]
    /\ process_locale' =
           locale_after_values(process_locale, p_region, p_text,
                               default_locale)
    /\ UNCHANGED <<run_vars, p_region, p_text, num_call, default_locale>>

ParseNext == ParseRegion

ParseSpec == ParseInit /\ [][ParseNext]_vars

\* the region's whole raw text
RawText == process_and_retrieve(p_text)

\* every required substring of the region occurs in the whole raw text
AllInRawText ==
    \A n \in 1..Len(mandatory_texts_of(p_region.regionConfig)) :
        Contains(RawText, mandatory_texts_of(p_region.regionConfig)[n])

\* what the region yields on the same text without required substrings
UngatedData ==
    process_numeric_values(
        [p_region EXCEPT !.regionConfig.MandatoryText = Absent],
        p_text).data

\* C9: for a region with required substrings the gate is decided on the
\* region's whole raw text: if any substring is missing from it, every key
\* the region emits is the empty string; if all occur in it, no key's
\* value is blanked by the gate.
C9_GateOnWholeRawText ==
    (/\ p_result.ran
     /\ ~p_result.raised
     /\ p_region.regionConfig.MandatoryText.kind # "absent")
        => /\ DOMAIN p_result.data = DOMAIN UngatedData
           /\ IF AllInRawText
              THEN p_result.data = UngatedData
              ELSE \A k \in DOMAIN p_result.data : p_result.data[k] = <<>>

\* the segments of the raw text, split at "("
RawSegments == Split(RawText, "(")

\* the value the loop body gives segment number i (from 0)
SegmentValue(i) ==
    segment_value(p_region, defined_unit_of(p_region.regionConfig, i),
                  RawSegments[i + 1])

\* C10: when the raw text holds "(", segment 0 yields the primary key's
\* value and the segment after it the secondary key's value; segments
\* beyond the declared keys are discarded, they overwrite no key and add
\* none.
C10_ExtraSegmentsDiscarded ==
    (/\ p_result.ran
     /\ ~p_result.raised
     /\ Contains(RawText, <<"(">>))
        => /\ DOMAIN p_result.data =
                  {p_region.key} \cup
                  (IF p_region.regionConfig.secondaryKey.has
                   THEN {p_region.regionConfig.secondaryKey.val} ELSE {})
           /\ p_result.data[p_region.key] = SegmentValue(0)
           /\ p_region.regionConfig.secondaryKey.has =>
                  p_result.data[p_region.regionConfig.secondaryKey.val]
                      = SegmentValue(1)

---------------------------------------------------------------------------
(* Classification of the first segment *)

\* the first segment after the mandatory-text check, the strip and the
\* zero workaround
Segment0 ==
    zero_workaround(Strip(
        MandatoryGate(RawSegments[1],
                      mandatory_texts_of(p_region.regionConfig))))

\* the text the patterns are searched in
Corrected0 == CorrectConfusions(Segment0)

Temp0 == match_temp(Corrected0)

Energy0 == match_energy(Corrected0)

Power0 == match_power(Corrected0)

\* the value stored under the region's key
Stored0 == p_result.data[p_region.key]

\* C11: classification is first match wins in the order temperature,
\* energy, power: a segment the temperature pattern matches is stored as a
\* temperature whatever else matches, and a segment the energy pattern
\* matches (and the temperature pattern does not) is stored as an energy
\* even if the power pattern matches too.
C11_FirstMatchWins ==
    (p_result.ran /\ ~p_result.raised) =>
        /\ Temp0.has =>
               Stored0 = clean_num_value(p_region, Temp0.val \o DegC)
        /\ (~Temp0.has /\ Energy0.has) =>
               Stored0 = clean_num_value(p_region,
                             Energy0.val.g1 \o energy_unit(Energy0.val.g2))
        /\ (~Temp0.has /\ ~Energy0.has /\ Power0.has) =>
               Stored0 = clean_num_value(p_region,
                             Power0.val.g1 \o power_unit(Power0.val.g2))

\* a segment that all three patterns match was stored as the temperature,
\* which differs from the energy and the power it also holds
C11_Witness ==
    /\ p_result.ran
    /\ ~p_result.raised
    /\ Temp0.has /\ Energy0.has /\ Power0.has
    /\ Stored0 = clean_num_value(p_region, Temp0.val \o DegC)
    /\ Stored0 # clean_num_value(p_region,
                     Energy0.val.g1 \o energy_unit(Energy0.val.g2))
    /\ Stored0 # clean_num_value(p_region,
                     Power0.val.g1 \o power_unit(Power0.val.g2))

\* the unit hint of the region's key
UnitHint0 == defined_unit_of(p_region.regionConfig, 0)

\* C12: a segment none of the three patterns matches is stored as the
\* empty string if the region declares a unit hint other than "None" for
\* the key, and otherwise as the segment after its cleanup (trimmed and
\* with the character confusions corrected).
C12_UnmatchedSegment ==
    (/\ p_result.ran
     /\ ~p_result.raised
     /\ ~Temp0.has /\ ~Energy0.has /\ ~Power0.has)
        => Stored0 = IF UnitHint0.has /\ UnitHint0.val # NoneStr
                     THEN <<>> ELSE Corrected0

\* the canonical spellings of the units
CanonicalUnits == {Unit_kWh, Unit_MWh, Unit_W, Unit_kW}

\* the unit handed to clean_num_value with the number of the first segment
Unit0 ==
    IF Energy0.has THEN energy_unit(Energy0.val.g2)
    ELSE power_unit(Power0.val.g2)

\* C14: every unit spelling the energy or the power pattern accepts is
\* rewritten to one of kWh, MWh, W, kW before the number is normalised.
C14_UnitsCanonical ==
    (/\ p_result.ran
     /\ ~p_result.raised
     /\ ~Temp0.has
     /\ Energy0.has \/ Power0.has)
        => Unit0 \in CanonicalUnits

\* s.lower() on the letters of the units
LowerChar(c) ==
    CASE c = "W" -> "w"
      [] c = "K" -> "k"
      [] c = "H" -> "h"
      [] c = "M" -> "m"
      [] OTHER -> c

Lower(s) == [i \in 1..Len(s) |-> LowerChar(s[i])]

\* the position after the decimal number the first segment begins with,
\* 0 if it begins with none
NumberEnd0 == NumberEnd(Segment0, 1)

\* what follows that number, without the whitespace between them
UnitText0 ==
    SubSeq(Segment0, SkipSpaces(Segment0, NumberEnd0), Len(Segment0))

\* the first segment is a decimal number followed by kWh or MWh written
\* in any mix of upper and lower case
AnyCaseEnergy0 ==
    /\ NumberEnd0 > 0
    /\ Lower(UnitText0) \in {<<"k", "w", "h">>, <<"m", "w", "h">>}

\* the energy the first segment states, as clean_num_value returns it
EnergyStated0 ==
    clean_num_value(p_region,
        SubSeq(Segment0, 1, NumberEnd0 - 1) \o
        (IF Lower(UnitText0) = <<"k", "w", "h">>
         THEN Unit_kWh ELSE Unit_MWh))

\* C21: a decimal number followed by kWh or MWh in any mix of upper and
\* lower case is classified as energy and never as power: the value stored
\* is the number normalised with the unit kWh or MWh.
C21_EnergyInAnyCase ==
    (/\ p_result.ran
     /\ ~p_result.raised
     /\ AnyCaseEnergy0)
        => /\ Energy0.has
           /\ Stored0 = EnergyStated0

\* the first segment is a minus or none, one or two digits and a comma
\* with digits or none, followed by the unit °C that begins at q
CelsiusReadingAt(q) ==
    /\ SubSeq(Segment0, q, Len(Segment0)) = DegC
    /\ LET u == SubSeq(Segment0, 1, q - 1)
           v == IF Len(u) > 0 /\ u[1] = "-" THEN Tail(u) ELSE u
           d == DigitRunEnd(v, 1) - 1
       IN  /\ d \in {1, 2}
           /\ \/ Len(v) = d
              \/ /\ Len(v) > d + 1
                 /\ v[d + 1] = ","
                 /\ AllDigits(SubSeq(v, d + 2, Len(v)))

CelsiusReading0 == \E q \in 2..Len(Segment0) : CelsiusReadingAt(q)

\* C22: a segment made of an optional minus, one or two digits, an
\* optional decimal-comma part and the unit °C is classified as a
\* temperature and yields that number; "5°C" gives 5.0 and "-5°C" -5.0.
C22_EveryCelsiusReading ==
    (/\ p_result.ran
     /\ ~p_result.raised
     /\ CelsiusReading0)
        => /\ Temp0.has
           /\ Temp0.val \o DegC = Segment0
           /\ Stored0 = clean_num_value(p_region, Segment0)

\* C24: process_numeric_values returns a mapping and raises nothing,
\* whatever the raw text and the region configuration: also for a text of
\* more segments than the unit list has entries, and for a number that
\* cannot be parsed.
C24_ParsingNeverRaises ==
    p_result.ran =>
        /\ ~p_result.raised
        /\ p_region.key \in DOMAIN p_result.data

---------------------------------------------------------------------------
(* clean_num_value on its own, statement by statement: a region object is  *)
(* built, clean_num_value is called on a number with its unit, and then    *)
(* again on the string it returned.                                        *)

\* region configurations with the settings of the numeric fixes
NormConfigs ==
    { RegionDefaults,
      [RegionDefaults EXCEPT !.decpt = Some(<<".">>)],
      [RegionDefaults EXCEPT !.maxValue = Some(50)],
      [RegionDefaults EXCEPT !.maxValue = Some(0)],
      [RegionDefaults EXCEPT !.maxValue = Some(0 - 5)],
      [RegionDefaults EXCEPT !.mandatoryDecimalPlaces = Some(1)],
      [RegionDefaults EXCEPT !.maxValue = Some(50),
                             !.mandatoryDecimalPlaces = Some(2)] }

NormLocales == {"de_DE.UTF-8", "en_US.UTF-8"}

\* the locales of the environment
DefaultLocales == {"C", "de_DE.UTF-8"}

\* numbers with their units, as the match branches hand them over
NormValues ==
    { <<"2","1",",","3","deg","C">>,
      <<"1","2","5","deg","C">>,
      <<"-","5",",","5","deg","C">>,
      <<"5","0","0","k","W","h">>,
      <<"1","2",".","5","k","W","h">>,
      <<"1",",","5","M","W","h">>,
      <<"3",",","2","k","W">>,
      <<"8","4","W">>,
      <<"0","W">>,
      <<"1","2","k","k","W">> }

NormInit ==
    /\ config = [Pages |-> <<>>, mqttUsage |-> FALSE,
                 mqttAutoDiscovery |-> FALSE, locale |-> "C"]
    /\ now = 0
    /\ pc = "normalise"
    /\ error = ""
    /\ vncclient = "none"
    /\ data = InitialData(0)
    /\ auto_discovery = <<>>
    /\ mira_pages = <<>>
    /\ mira_page = NoPage
    /\ page_idx = 1
    /\ move_idx = 1
    /\ proc_idx = 1
    /\ region_idx = 1
    /\ handed = <<>>
    /\ broker = <<>>
    /\ page_status = <<>>
    /\ pointer_log = <<>>
    /\ capture_failed = {}
    /\ ocr_failed = FALSE
    /\ passed_checks = {}
    /\ failed_checks = {}
    /\ processed = {}
    /\ merged = {}
    /\ p_region = MiraRegion("", RegionDefaults, "C")
    /\ p_text = <<>>
    /\ p_result = NotRun
    /\ \E cfg \in NormConfigs, tag \in NormLocales, value \in NormValues :
           num_call = [NoCall EXCEPT !.pc = "init", !.config = cfg,
                                     !.ui_locale = tag, !.value = value]
    /\ process_locale \in {StartLocale,
                           [LC_NUMERIC |-> "de_DE.UTF-8",
                            others |-> "de_DE.UTF-8"]}
    /\ default_locale \in DefaultLocales

\* MiraRegion(...): the constructor sets the separators
BuildRegion ==
    /\ pc = "normalise"
    /\ num_call.pc = "init"
    /\ p_region' = MiraRegion("K", num_call.config, num_call.ui_locale)
    /\ process_locale' =
           locale_after_separators(process_locale, num_call.ui_locale,
                                   default_locale)
    /\ num_call' = [num_call EXCEPT !.pc = "begin",
                                    !.entry_locale = process_locale]
    /\ UNCHANGED <<run_vars, p_text, p_result, default_locale>>

\* clean_num_value: strvalue = self.clean_numeric_separators(value.strip())
BeginClean ==
    /\ pc = "normalise"
    /\ num_call.pc = "begin"
    /\ num_call' =
           [num_call EXCEPT
               !.pc = "suffix",
               !.strvalue = clean_numeric_separators(p_region,
                                Strip(num_call.value)),
               !.suffix = <<>>, !.parsed = None, !.scaled = None,
               !.limited = None, !.numvalue = None,
               !.entry_locale = process_locale]
    /\ UNCHANGED <<run_vars, p_region, p_text, p_result, default_locale,
                   process_locale>>

\* the call after the elif chain found the unit suffix
with_suffix(call, region, suffix) ==
    [call EXCEPT
        !.pc = "loop",
        !.suffix = suffix,
        !.strvalue = RemoveSuffix(call.strvalue, suffix),
        !.parsed = Some(get_numeric_value(region,
                            RemoveSuffix(call.strvalue, suffix))),
        !.scaled = Some(scale_unit(suffix,
                            get_numeric_value(region,
                                RemoveSuffix(call.strvalue, suffix)))),
        !.numvalue = Some(scale_unit(suffix,
                            get_numeric_value(region,
                                RemoveSuffix(call.strvalue, suffix))))]

\* clean_num_value: the elif chain over the unit suffixes
ParseSuffix ==
    /\ pc = "normalise"
    /\ num_call.pc = "suffix"
    /\ IF unit_suffix(num_call.strvalue) = <<>>
       THEN /\ num_call' = [num_call EXCEPT !.pc = "return"]
            /\ process_locale' = process_locale
       ELSE /\ num_call' = with_suffix(num_call, p_region,
                                       unit_suffix(num_call.strvalue))
            /\ process_locale' =
                   locale_after_numeric_value(process_locale,
                       p_region.ui_locale, default_locale)
    /\ UNCHANGED <<run_vars, p_region, p_text, p_result, default_locale>>

\* clean_num_value: while numvalue > maxValue: numvalue /= 10
MaxValueLoop ==
    /\ pc = "normalise"
    /\ num_call.pc = "loop"
    /\ IF /\ p_region.regionConfig.maxValue.has
          /\ GreaterThan(num_call.numvalue.val,
                         p_region.regionConfig.maxValue.val)
       THEN num_call' =
                [num_call EXCEPT
                    !.numvalue = Some(DivPow10(num_call.numvalue.val, 1))]
       ELSE num_call' =
                [num_call EXCEPT !.pc = "fix",
                                 !.limited = num_call.numvalue]
    /\ UNCHANGED <<run_vars, p_region, p_text, p_result, default_locale,
                   process_locale>>

\* clean_num_value: the mandatoryDecimalPlaces fix and str(numvalue)
FixDecimals ==
    /\ pc = "normalise"
    /\ num_call.pc = "fix"
    /\ num_call' =
           [num_call EXCEPT
               !.pc = "return",
               !.numvalue = Some(decimal_places_fix(p_region,
                                     num_call.strvalue,
                                     num_call.numvalue.val)),
               !.strvalue = FloatStr(decimal_places_fix(p_region,
                                         num_call.strvalue,
                                         num_call.numvalue.val))]
    /\ UNCHANGED <<run_vars, p_region, p_text, p_result, default_locale,
                   process_locale>>

\* clean_num_value: return strvalue; the next pass is called on it
ReturnValue ==
    /\ pc = "normalise"
    /\ num_call.pc = "return"
    /\ num_call' =
           [num_call EXCEPT
               !.pc = IF Len(num_call.out) + 1 < MaxPasses
                      THEN "begin" ELSE "done",
               !.value = IF Len(num_call.out) + 1 < MaxPasses
                         THEN num_call.strvalue ELSE num_call.value,
               !.out = Append(num_call.out,
                              [str |-> num_call.strvalue,
                               num |-> num_call.numvalue])]
    /\ UNCHANGED <<run_vars, p_region, p_text, p_result, default_locale,
                   process_locale>>

NormNext ==
    \/ BuildRegion
    \/ BeginClean
    \/ ParseSuffix
    \/ MaxValueLoop
    \/ FixDecimals
    \/ ReturnValue

NormSpec == NormInit /\ [][NormNext]_vars

\* a loop that has another pass to make makes it
NormFairSpec == NormSpec /\ WF_vars(MaxValueLoop)

---------------------------------------------------------------------------
(* Numeric normalisation *)

\* the number a returned string stands for: the number the pass computed,
\* or the string read as a Python float or in the region's locale
ValuesOf(o) ==
    IF o.num.has THEN {o.num.val}
    ELSE {float_or_zero(ParseFloat(o.str)),
          get_numeric_value(p_region, o.str)}

\* C13: normalisation is idempotent: the string a first pass returned for
\* a number, normalised again with the same region and locale, stands for
\* the same number.
C13_Idempotent ==
    (/\ num_call.pc = "done"
     /\ Len(num_call.out) >= 2
     /\ num_call.out[1].num.has)
        => num_call.out[1].num.val \in ValuesOf(num_call.out[2])

\* x / 10^k, exactly
Shifted(x, k) == Normalise([x EXCEPT !.e = x.e + k])

\* the region's maxValue
MaxValue == p_region.regionConfig.maxValue

\* r is v / 10^k for the least k >= 0 that brings it to maxValue or below
LeastShift(v, r) ==
    /\ ~GreaterThan(r, MaxValue.val)
    /\ \E k \in 0..FloatDecimals :
          /\ r = Shifted(v, k)
          /\ k > 0 => GreaterThan(Shifted(v, k - 1), MaxValue.val)

\* C15: with a maxValue declared the divide-by-10 loop terminates for
\* every parsed number v, and it leaves v / 10^k for the least k >= 0 with
\* v / 10^k <= maxValue.
C15_MagnitudeConverges ==
    /\ num_call.pc = "loop" ~> num_call.pc = "fix"
    /\ []((MaxValue.has /\ num_call.limited.has) =>
             LeastShift(num_call.scaled.val, num_call.limited.val))

\* the string of the pass after clean_numeric_separators
Cleaned == clean_numeric_separators(p_region, Strip(num_call.value))

\* the cleaned string holds the decimal point of the locale
HasDecimals == Contains(Cleaned, localeconv(p_region.ui_locale).decimal_point)

\* the region's mandatoryDecimalPlaces
DecimalPlaces == p_region.regionConfig.mandatoryDecimalPlaces

\* C16: with mandatoryDecimalPlaces = n declared, the number is divided by
\* 10^n exactly when the cleaned string holds no decimal separator, and is
\* left as it is when the string holds one.
C16_MandatoryDecimals ==
    (/\ num_call.pc = "return"
     /\ num_call.limited.has
     /\ DecimalPlaces.has)
        => /\ num_call.numvalue.val =
                  IF HasDecimals THEN num_call.limited.val
                  ELSE DivPow10(num_call.limited.val, DecimalPlaces.val)
           /\ num_call.strvalue = FloatStr(num_call.numvalue.val)

\* "125" with one mandatory decimal place and the decimal point "," was
\* returned as 12.5
C16_Witness ==
    /\ num_call.pc = "return"
    /\ num_call.out = <<>>
    /\ num_call.value = <<"1", "2", "5", "deg", "C">>
    /\ DecimalPlaces = Some(1)
    /\ p_region.real_decpt = <<",">>
    /\ num_call.limited.val = [neg |-> FALSE, m |-> 125, e |-> 0]
    /\ num_call.strvalue = <<"1", "2", ".", "5">>

\* C17: the parsed number is multiplied by 1000 exactly when the unit is
\* MWh or kW, and left unscaled for kWh, W and °C.
C17_ScaledByUnit ==
    (num_call.pc = "loop" /\ num_call.scaled.has) =>
        num_call.scaled.val =
            IF EndsWith(Cleaned, Unit_MWh) \/ EndsWith(Cleaned, Unit_kW)
            THEN Times1000(num_call.parsed.val)
            ELSE num_call.parsed.val

\* "1,5MWh" was parsed as 1.5 in the German locale and scaled to 1500
C17_Witness ==
    /\ num_call.pc = "loop"
    /\ num_call.suffix = Unit_MWh
    /\ num_call.parsed = Some([neg |-> FALSE, m |-> 15, e |-> 1])
    /\ num_call.scaled = Some([neg |-> FALSE, m |-> 1500, e |-> 0])

\* C18: after the construction of a region and after every call of
\* clean_num_value the locale of the process, in every category, is what it
\* was before.
C18_LocaleRestored ==
    num_call.pc \in {"begin", "done"} =>
        process_locale = num_call.entry_locale

=============================================================================
